---- MODULE Spec2Model ----
(***************************************************************************)
(* Ledger and transfer core of the ISHARE console server.                  *)
(*                                                                         *)
(* One user account (ishareBalance), the Transaction collection (ledger),  *)
(* the IshareTransfer collection, the settlement provider, and a pool of   *)
(* concurrent HTTP requests.  Every `await` of a handler is a step         *)
(* boundary: a handler action runs from one await to the next.             *)
(*                                                                         *)
(* Strings that the code inspects character by character (phone numbers)   *)
(* are sequences over 0..10: 0..9 are the digits, 10 is any non-digit      *)
(* character.                                                              *)
(***************************************************************************)
EXTENDS Integers, Sequences, FiniteSets, TLC

\* ---------------------------------------------------------------- bounds
MaxReq == 2          \* concurrent / successive requests in a behaviour
MaxRandom == 2       \* distinct values of the random suffix of a transaction id
InitBalance == 500   \* balance credited to the account before the behaviour starts
MaxSubscriber == 11  \* subscriber digits tried after each leading part of a phone number
WindowMs == 3        \* windowMs of the rate limiter, in clock ticks
MaxAdmit == 2        \* max of the rate limiter
MaxTime == 5         \* last clock tick at which a request arrives

Reqs == 1..MaxReq
Randoms == 1..MaxRandom

Null == "<null>"

\* ------------------------------------------------------- phone numbers
IsDigit(c) == c \in 0..9

\* phoneStr.replace(/\D/g, '')
StripNonDigits(s) == SelectSeq(s, IsDigit)

StartsWith(s, p) == Len(s) >= Len(p) /\ SubSeq(s, 1, Len(p)) = p

FmtOk(v) == [ok |-> TRUE, value |-> v, error |-> Null]
FmtErr(e) == [ok |-> FALSE, value |-> <<>>, error |-> e]

ErrRequired == "Phone number is required"
ErrNot233 == "International format must start with Ghana country code 233"
ErrInvalidFormat == "Invalid phone number format. Received n digits"
ErrFinalLength == "Final formatted number must be 12 digits"

\* faulty variant: the 13-digit form keeps its leading 0
FormatBranch_KeepsLeadingZero(cleaned) ==
  IF Len(cleaned) = 10 /\ StartsWith(cleaned, <<0>>)
    THEN FmtOk(<<2, 3, 3>> \o SubSeq(cleaned, 2, Len(cleaned)))
  ELSE IF Len(cleaned) = 12 /\ StartsWith(cleaned, <<2, 3, 3>>)
    THEN FmtOk(cleaned)
  ELSE IF Len(cleaned) = 13 /\ StartsWith(cleaned, <<0, 2, 3, 3>>)
    THEN FmtOk(cleaned)
  ELSE FmtErr(ErrInvalidFormat)

\* the if / else-if chain of formatMsisdn over the cleaned digits
FormatBranch(cleaned) ==
  IF Len(cleaned) = 10 /\ StartsWith(cleaned, <<0>>)
    THEN FmtOk(<<2, 3, 3>> \o SubSeq(cleaned, 2, Len(cleaned)))
  ELSE IF Len(cleaned) = 10 /\ ~StartsWith(cleaned, <<0>>)
    THEN FmtOk(<<2, 3, 3>> \o cleaned)
  ELSE IF Len(cleaned) = 9
    THEN FmtOk(<<2, 3, 3>> \o <<2>> \o cleaned)
  ELSE IF Len(cleaned) = 12
    THEN IF ~StartsWith(cleaned, <<2, 3, 3>>) THEN FmtErr(ErrNot233) ELSE FmtOk(cleaned)
  ELSE IF Len(cleaned) = 13 /\ StartsWith(cleaned, <<0, 2, 3, 3>>)
    THEN FmtOk(SubSeq(cleaned, 2, Len(cleaned)))
  ELSE FmtErr(ErrInvalidFormat)

\* faulty variant: the final check of the length is left out
formatMsisdn_NoFinalCheck(phoneNumber) ==
  IF phoneNumber = <<>> THEN FmtErr(ErrRequired)
  ELSE FormatBranch(StripNonDigits(phoneNumber))

\* IShareService.formatMsisdn: the formatted number, or the Error it throws
formatMsisdn(phoneNumber) ==
  IF phoneNumber = <<>> THEN FmtErr(ErrRequired)
  ELSE LET b == FormatBranch(StripNonDigits(phoneNumber))
       IN IF ~b.ok THEN b
          ELSE IF Len(b.value) # 12 THEN FmtErr(ErrFinalLength)
          ELSE b

\* ------------------------------------------------- provider responses
\* A response body: kind "xml" carries the fields the regexes extract
\* ("" when the tag is absent or empty), kind "html" is an error page.
XmlBody(code, msg, sys, ven) ==
  [kind |-> "xml", code |-> code, msg |-> msg, sys |-> sys, ven |-> ven]

HtmlBody == [kind |-> "html", code |-> "", msg |-> "", sys |-> "", ven |-> ""]

\* IShareService.getErrorMessage
getErrorMessage(errorCode) ==
  CASE errorCode = "200" -> "Successfully queried; good feedback"
    [] errorCode = "319" -> "No balance"
    [] errorCode = "306" -> "Subscriber does not exist"
    [] errorCode = "161" -> "Incorrect RecipientMsisdn"
    [] errorCode = "165" -> "Incorrect Recipient MSISDN Length"
    [] errorCode = "305" -> "Invalid Username/Password"
    [] errorCode = "312" -> "Sorry, you are not eligible to buy this product"
    [] errorCode = "61319" -> "Sorry the process failed. Please try again"
    [] errorCode = "64528" -> "Recharge will increase balance beyond max threshold"
    [] OTHER -> "Unknown error code"

OrNull(s) == IF s = "" THEN Null ELSE s

MsgHtml == "Provider returned HTML error page instead of XML response"
MsgNone == "No message from provider"

\* faulty variant: every answer with a response code counts as success
parseTransferResponse_AnyCode(xmlResponse) ==
  [success |-> xmlResponse.kind = "xml" /\ xmlResponse.code # "",
   responseCode |-> OrNull(xmlResponse.code), message |-> MsgNone,
   systemTransactionId |-> OrNull(xmlResponse.sys),
   vendorTransactionId |-> OrNull(xmlResponse.ven)]

\* IShareService.parseTransferResponse (first, "complete updated" service)
parseTransferResponse(xmlResponse) ==
  IF xmlResponse.kind = "html"
    THEN [success |-> FALSE, responseCode |-> Null, message |-> MsgHtml,
          systemTransactionId |-> Null, vendorTransactionId |-> Null]
  ELSE LET responseCode == OrNull(xmlResponse.code)
           responseMsg == xmlResponse.msg
           humanReadableMessage ==
             IF responseCode # Null THEN getErrorMessage(responseCode) ELSE responseMsg
       IN [success |-> responseCode = "200",
           responseCode |-> responseCode,
           message |-> IF responseMsg # "" THEN responseMsg
                       ELSE IF humanReadableMessage # "" THEN humanReadableMessage
                       ELSE MsgNone,
           systemTransactionId |-> OrNull(xmlResponse.sys),
           vendorTransactionId |-> OrNull(xmlResponse.ven)]

NoResult ==
  [success |-> FALSE, responseCode |-> Null, message |-> Null,
   systemTransactionId |-> Null, vendorTransactionId |-> Null]

\* the Error sendTransfer throws for a request that got no response
TransportMessage(code) ==
  CASE code = "ECONNREFUSED" -> "Connection refused - Provider service may be down or unreachable"
    [] code = "ETIMEDOUT" -> "Connection timeout - Provider service is not responding"
    [] code = "ENOTFOUND" -> "DNS resolution failed - Cannot find provider server"
    [] OTHER -> "Network error"

ErrMinimum == "Minimum transfer amount is 50MB"

\* the synchronous head of sendTransfer: what it throws before any request
\* is made (Null when it goes on to post the request)
SendTransferThrows(recipientMsisdn, amountMB) ==
  IF amountMB < 50 THEN ErrMinimum
  ELSE formatMsisdn(recipientMsisdn).error

\* what the gateway can do with one send-transfer request
SendOutcomes ==
  { [fault |-> "none", body |-> XmlBody("200", "", "SYS1", "VEN1"), executed |-> TRUE],
    [fault |-> "none", body |-> XmlBody("319", "", "", ""), executed |-> FALSE],
    [fault |-> "none", body |-> XmlBody("319", "Dealer has no balance", "", ""), executed |-> FALSE],
    [fault |-> "none", body |-> HtmlBody, executed |-> FALSE],
    [fault |-> "ETIMEDOUT", body |-> HtmlBody, executed |-> TRUE],
    [fault |-> "ETIMEDOUT", body |-> HtmlBody, executed |-> FALSE],
    [fault |-> "ECONNREFUSED", body |-> HtmlBody, executed |-> FALSE] }

NoOutcome == [fault |-> "unset", body |-> HtmlBody, executed |-> FALSE]

\* ---------------------------------------------------- transaction ids
NoKey == <<"none", 0>>

\* IShareService.generateTransactionId: prefix, timestamp and random suffix;
\* the requests of a behaviour fall in the same millisecond, the suffix is
\* whatever Math.random gives
generateTransactionId(prefix, random) == <<prefix, random>>

\* ------------------------------------------------------------ inputs
Phone10 == <<0, 2, 6, 7, 7, 8, 1, 2, 9, 4>>           \* "0267781294"
Phone9 == <<2, 6, 7, 7, 8, 1, 2, 9, 4>>               \* "267781294"
Phone12 == <<2, 3, 3, 2, 6, 7, 7, 8, 1, 2, 9, 4>>     \* "233267781294"
Phone5 == <<1, 2, 3, 4, 5>>                           \* "12345"

WebPhones == {Phone10, Phone9, Phone12, Phone5}
ApiPhones == {Phone10, Phone5}
TransferAmounts == {40, 400}
UseAmounts == {0, 400}
AdminAmounts == {400}
CreditAmounts == {100}

\* --------------------------------------------------------------- state
VARIABLES
  ishareBalance,   \* User.ishareBalance of the account
  ledger,          \* the Transaction collection: a set of entries
  transfers,       \* the IshareTransfer collection, by creating request
  req,             \* the requests: position in the handler and its locals
  incs,            \* history: net $inc each request applied to the balance
  providerCalls,   \* history: send-transfer requests that reached the gateway
  providerExecuted, \* transaction ids the provider executed
  call             \* a call of a service helper: its argument and result

vars == <<ishareBalance, ledger, transfers, req, incs, providerCalls, providerExecuted, call>>

NoTransfer ==
  [status |-> "none", externalTransactionId |-> NoKey, amountMB |-> 0,
   recipientPhoneNumber |-> <<>>, systemTransactionId |-> Null,
   vendorTransactionId |-> Null, failureReason |-> Null]

IdleReq ==
  [pc |-> "idle", kind |-> "none", phone |-> <<>>, amount |-> 0,
   balanceSeen |-> 0, transactionId |-> NoKey, outcome |-> NoOutcome,
   apiResult |-> NoResult, thrown |-> Null, seen |-> Null,
   providerStatus |-> Null, status |-> 0, error |-> Null,
   reportedStatus |-> Null, reportedReason |-> Null,
   requests |-> 0]

Entry(id, type, amount, transfer) ==
  [id |-> id, type |-> type, amount |-> amount, ishareTransfer |-> transfer]

\* no helper call under way
NoCall == [fn |-> "none", arg |-> <<>>, out |-> FmtErr(Null), done |-> FALSE]

Init ==
  /\ ishareBalance = InitBalance
  /\ ledger = {Entry(0, "admin_load", InitBalance, 0)}
  /\ transfers = [r \in Reqs |-> NoTransfer]
  /\ req = [r \in Reqs |-> IdleReq]
  /\ incs = [r \in Reqs |-> 0]
  /\ providerCalls = {}
  /\ providerExecuted = {}
  /\ call = NoCall

\* requests arrive in slot order
CanStart(r) == req[r].pc = "idle" /\ (IF r = 1 THEN TRUE ELSE req[r - 1].pc # "idle")

Respond(r, status, error) ==
  [req[r] EXCEPT !.pc = "done", !.status = status, !.error = error]

\* faulty variant: the request is posted a second time
GatewayRequest_Twice(rec) == [rec EXCEPT !.requests = @ + 2]

\* one axios.post to the gateway on behalf of the request
GatewayRequest(rec) == [rec EXCEPT !.requests = @ + 1]

\* the transfer object of an answer: its status and failureReason
ReportTransfer(answer, status, failureReason) ==
  [answer EXCEPT !.reportedStatus = status, !.reportedReason = failureReason]

\* ------------------------------------------- web POST /transfer/send
\* the pre-check of the digit-stripped phone number
WebPhoneAccepted(digitsOnly) ==
  \/ Len(digitsOnly) = 9
  \/ Len(digitsOnly) = 10
  \/ Len(digitsOnly) = 12 /\ StartsWith(digitsOnly, <<2, 3, 3>>)

\* the 400 answer of the validation block, Null when the request passes
WebValidationError(phoneNumber, amountMB, balance) ==
  IF phoneNumber = <<>> THEN "Phone number is required"
  ELSE IF ~WebPhoneAccepted(StripNonDigits(phoneNumber)) THEN "Phone number must be 9-10 digits"
  ELSE IF amountMB = 0 \/ amountMB < 50 THEN "Amount must be at least 50MB"
  ELSE IF balance < amountMB THEN "Insufficient balance"
  ELSE Null

\* authenticate reads the user; the handler validates against that copy
\* and generates the transaction id
WebTransferStart(r) ==
  /\ CanStart(r)
  /\ \E phoneNumber \in WebPhones, amountMB \in TransferAmounts, random \in Randoms :
       LET e == WebValidationError(phoneNumber, amountMB, ishareBalance)
           started == [req[r] EXCEPT !.kind = "webTransfer", !.phone = phoneNumber,
                                     !.amount = amountMB, !.balanceSeen = ishareBalance]
       IN req' = [req EXCEPT ![r] =
                    IF e # Null
                      THEN [started EXCEPT !.pc = "done", !.status = 400, !.error = e]
                      ELSE [started EXCEPT !.pc = "saveTransfer",
                              !.transactionId = generateTransactionId("WEB", random)]]
  /\ UNCHANGED <<ishareBalance, ledger, transfers, incs, providerCalls, providerExecuted, call>>

\* the validators of ishareTransferSchema that a save() runs
TransferSchemaValid(recipientPhoneNumber, amountMB) ==
  /\ Len(StripNonDigits(recipientPhoneNumber)) \in {9, 10}
  /\ amountMB >= 1

\* the unique index on externalTransactionId
KeyTaken(transactionId) ==
  \E q \in Reqs : /\ transfers[q].status # "none"
                  /\ transfers[q].externalTransactionId = transactionId

\* faulty variant: the record is not persisted before the provider is called
PendingTransfer_NotSaved(phoneStr, amountMB, transactionId) == NoTransfer

PendingTransfer(phoneStr, amountMB, transactionId) ==
  [NoTransfer EXCEPT !.status = "pending", !.externalTransactionId = transactionId,
                     !.amountMB = amountMB, !.recipientPhoneNumber = phoneStr]

\* await transfer.save() of the new pending record; a rejected save lands
\* in the outer catch
WebSaveTransfer(r) ==
  /\ req[r].kind = "webTransfer" /\ req[r].pc = "saveTransfer"
  /\ IF TransferSchemaValid(req[r].phone, req[r].amount) /\ ~KeyTaken(req[r].transactionId)
       THEN /\ transfers' = [transfers EXCEPT ![r] =
                  PendingTransfer(req[r].phone, req[r].amount, req[r].transactionId)]
            /\ req' = [req EXCEPT ![r].pc = "callProvider"]
       ELSE /\ req' = [req EXCEPT ![r] = Respond(r, 500, "Internal server error")]
            /\ UNCHANGED transfers
  /\ UNCHANGED <<ishareBalance, ledger, incs, providerCalls, providerExecuted, call>>

\* faulty variant: the catch block leaves the transfer as it was saved
StatusOnProviderError_Pending == "pending"

\* the status the catch (providerError) block gives the transfer
StatusOnProviderError == "failed"

\* faulty variant: the reason of the failure is not stored
FailTransfer_NoReason(t, status, reason) == [t EXCEPT !.status = status]

FailTransfer(t, status, reason) ==
  [t EXCEPT !.status = status, !.failureReason = reason]

\* iShareService.sendTransfer up to axios.post: it throws before any
\* request is made, or the request goes out
WebCallProvider(r) ==
  /\ req[r].kind = "webTransfer" /\ req[r].pc = "callProvider"
  /\ LET thrown == SendTransferThrows(req[r].phone, req[r].amount)
     IN IF thrown # Null
          THEN /\ transfers' = [transfers EXCEPT ![r] =
                     FailTransfer(@, StatusOnProviderError, thrown)]
               /\ req' = [req EXCEPT ![r].pc = "errorTransaction", ![r].thrown = thrown]
               /\ UNCHANGED providerCalls
          ELSE /\ providerCalls' = providerCalls \cup
                     {[by |-> r, transactionId |-> req[r].transactionId]}
               /\ req' = [req EXCEPT ![r] = GatewayRequest([req[r] EXCEPT !.pc = "awaitProvider"])]
               /\ UNCHANGED transfers
  /\ UNCHANGED <<ishareBalance, ledger, incs, providerExecuted, call>>

CompleteTransfer(t, apiResult) ==
  [t EXCEPT !.status = "completed",
            !.systemTransactionId = apiResult.systemTransactionId,
            !.vendorTransactionId = apiResult.vendorTransactionId]

\* the branch the handler takes on a parsed provider answer
WebOnResult(r, o, apiResult) ==
  IF apiResult.success
    THEN /\ transfers' = [transfers EXCEPT ![r] = CompleteTransfer(@, apiResult)]
         /\ req' = [req EXCEPT ![r].pc = "debit", ![r].outcome = o,
                                ![r].apiResult = apiResult]
    ELSE /\ transfers' = [transfers EXCEPT ![r] = FailTransfer(@, "failed", apiResult.message)]
         /\ req' = [req EXCEPT ![r].pc = "failedTransaction", ![r].outcome = o,
                                ![r].apiResult = apiResult]

\* the catch (providerError) block up to its transfer.save()
WebOnThrow(r, o, message) ==
  /\ transfers' = [transfers EXCEPT ![r] = FailTransfer(@, StatusOnProviderError, message)]
  /\ req' = [req EXCEPT ![r].pc = "errorTransaction", ![r].outcome = o,
                         ![r].thrown = message]

\* the gateway executes a request it has received: the bundle is moved
ProviderExecutes(r) ==
  /\ req[r].kind \in {"webTransfer", "debugTransfer"} /\ req[r].pc = "awaitProvider"
  /\ req[r].transactionId \notin providerExecuted
  /\ providerExecuted' = providerExecuted \cup {req[r].transactionId}
  /\ UNCHANGED <<ishareBalance, ledger, transfers, req, incs, providerCalls, call>>

\* the answers (or faults) a request can end in, given what the gateway did
SendOutcomesFor(transactionId) ==
  {o \in SendOutcomes : o.executed = (transactionId \in providerExecuted)}

\* the gateway answers (or the request faults) and the handler resumes up
\* to its transfer.save()
WebProviderResponds(r) ==
  /\ req[r].kind = "webTransfer" /\ req[r].pc = "awaitProvider"
  /\ \E o \in SendOutcomesFor(req[r].transactionId) :
       IF o.fault = "none"
         THEN WebOnResult(r, o, parseTransferResponse(o.body))
         ELSE WebOnThrow(r, o, TransportMessage(o.fault))
  /\ UNCHANGED <<ishareBalance, ledger, incs, providerCalls, providerExecuted, call>>

\* User.findByIdAndUpdate(id, { $inc: { ishareBalance: delta } }): one atomic,
\* unconditional update; update validators do not run
IncBalance(r, delta) ==
  /\ ishareBalance' = ishareBalance + delta
  /\ incs' = [incs EXCEPT ![r] = @ + delta]

\* faulty variant: the debit is applied twice over
WebDebitDelta_Twice(amountMB) == -(2 * amountMB)

WebDebitDelta(amountMB) == -amountMB

WebDebit(r) ==
  /\ req[r].kind = "webTransfer" /\ req[r].pc = "debit"
  /\ IncBalance(r, WebDebitDelta(req[r].amount))
  /\ req' = [req EXCEPT ![r].pc = "senderTransaction"]
  /\ UNCHANGED <<ledger, transfers, providerCalls, providerExecuted, call>>

WebSenderEntry(r, amountMB) == Entry(r, "transfer_sent", -amountMB, r)

WebSenderTransaction(r) ==
  /\ req[r].kind = "webTransfer" /\ req[r].pc = "senderTransaction"
  /\ ledger' = ledger \cup {WebSenderEntry(r, req[r].amount)}
  /\ req' = [req EXCEPT ![r] = ReportTransfer(Respond(r, 200, Null), "completed", Null)]
  /\ UNCHANGED <<ishareBalance, transfers, incs, providerCalls, providerExecuted, call>>

\* faulty variant: a rejected transfer is booked as a debit
WebFailedEntry_Debits(r) == Entry(r, "transfer_failed", -req[r].amount, r)

WebFailedEntry(r) == Entry(r, "transfer_failed", 0, r)

WebFailedTransaction(r) ==
  /\ req[r].kind = "webTransfer" /\ req[r].pc = "failedTransaction"
  /\ ledger' = ledger \cup {WebFailedEntry(r)}
  /\ req' = [req EXCEPT ![r] =
       ReportTransfer(Respond(r, 400, "Transfer failed"),
                      "failed", transfers[r].failureReason)]
  /\ UNCHANGED <<ishareBalance, transfers, incs, providerCalls, providerExecuted, call>>

WebErrorEntry(r) == Entry(r, "transfer_error", 0, r)

\* providerError.message.includes('Invalid phone number format')
IsPhoneFormatError(message) == message = ErrInvalidFormat

WebErrorTransaction(r) ==
  /\ req[r].kind = "webTransfer" /\ req[r].pc = "errorTransaction"
  /\ ledger' = ledger \cup {WebErrorEntry(r)}
  /\ req' = [req EXCEPT ![r] =
       ReportTransfer(
         IF IsPhoneFormatError(req[r].thrown)
           THEN Respond(r, 400, "Invalid phone number format")
           ELSE Respond(r, 500, "Transfer failed due to provider service error"),
         "failed", transfers[r].failureReason)]
  /\ UNCHANGED <<ishareBalance, transfers, incs, providerCalls, providerExecuted, call>>

WebTransfer(r) ==
  \/ WebTransferStart(r)
  \/ WebSaveTransfer(r)
  \/ WebCallProvider(r)
  \/ WebProviderResponds(r)
  \/ WebDebit(r)
  \/ WebSenderTransaction(r)
  \/ WebFailedTransaction(r)
  \/ WebErrorTransaction(r)

\* ------------------------------------------- API POST /transfer/send
\* !phoneNumber || !/^\d{10}$/.test(phoneNumber), then amount and balance
ApiValidationError(phoneNumber, amountMB, balance) ==
  IF phoneNumber = <<>> \/ Len(phoneNumber) # 10 \/ StripNonDigits(phoneNumber) # phoneNumber
    THEN "Phone number must be exactly 10 digits"
  ELSE IF amountMB = 0 \/ amountMB < 1 THEN "Amount must be at least 1MB"
  ELSE IF balance < amountMB THEN "Insufficient balance"
  ELSE Null

ApiTransferStart(r) ==
  /\ CanStart(r)
  /\ \E phoneNumber \in ApiPhones, amountMB \in TransferAmounts :
       LET e == ApiValidationError(phoneNumber, amountMB, ishareBalance)
           started == [req[r] EXCEPT !.kind = "apiTransfer", !.phone = phoneNumber,
                                     !.amount = amountMB, !.balanceSeen = ishareBalance]
       IN req' = [req EXCEPT ![r] =
                    IF e # Null
                      THEN [started EXCEPT !.pc = "done", !.status = 400, !.error = e]
                      ELSE [started EXCEPT !.pc = "saveTransfer"]]
  /\ UNCHANGED <<ishareBalance, ledger, transfers, incs, providerCalls, providerExecuted, call>>

\* the record is created already completed, with no externalTransactionId
ApiCompletedTransfer(phoneNumber, amountMB) ==
  [NoTransfer EXCEPT !.status = "completed", !.amountMB = amountMB,
                     !.recipientPhoneNumber = phoneNumber]

ApiSaveTransfer(r) ==
  /\ req[r].kind = "apiTransfer" /\ req[r].pc = "saveTransfer"
  /\ IF TransferSchemaValid(req[r].phone, req[r].amount)
       THEN /\ transfers' = [transfers EXCEPT ![r] =
                  ApiCompletedTransfer(req[r].phone, req[r].amount)]
            /\ req' = [req EXCEPT ![r].pc = "debit"]
       ELSE /\ req' = [req EXCEPT ![r] = Respond(r, 500, "Internal server error")]
            /\ UNCHANGED transfers
  /\ UNCHANGED <<ishareBalance, ledger, incs, providerCalls, providerExecuted, call>>

ApiDebit(r) ==
  /\ req[r].kind = "apiTransfer" /\ req[r].pc = "debit"
  /\ IncBalance(r, -req[r].amount)
  /\ req' = [req EXCEPT ![r].pc = "senderTransaction"]
  /\ UNCHANGED <<ledger, transfers, providerCalls, providerExecuted, call>>

ApiSenderTransaction(r) ==
  /\ req[r].kind = "apiTransfer" /\ req[r].pc = "senderTransaction"
  /\ ledger' = ledger \cup {Entry(r, "transfer_sent", -req[r].amount, r)}
  /\ req' = [req EXCEPT ![r] = Respond(r, 200, Null)]
  /\ UNCHANGED <<ishareBalance, transfers, incs, providerCalls, providerExecuted, call>>

ApiTransfer(r) ==
  \/ ApiTransferStart(r)
  \/ ApiSaveTransfer(r)
  \/ ApiDebit(r)
  \/ ApiSenderTransaction(r)

\* ----------------------------------------------------- POST /use-data
UseDataValidationError(amount, balance) ==
  IF amount <= 0 THEN "Invalid amount"
  ELSE IF balance < amount THEN "Insufficient balance"
  ELSE Null

UseDataStart(r) ==
  /\ CanStart(r)
  /\ \E amount \in UseAmounts :
       LET e == UseDataValidationError(amount, ishareBalance)
           started == [req[r] EXCEPT !.kind = "useData", !.amount = amount,
                                     !.balanceSeen = ishareBalance]
       IN req' = [req EXCEPT ![r] =
                    IF e # Null
                      THEN [started EXCEPT !.pc = "done", !.status = 400, !.error = e]
                      ELSE [started EXCEPT !.pc = "debit"]]
  /\ UNCHANGED <<ishareBalance, ledger, transfers, incs, providerCalls, providerExecuted, call>>

UseDataDebit(r) ==
  /\ req[r].kind = "useData" /\ req[r].pc = "debit"
  /\ IncBalance(r, -req[r].amount)
  /\ req' = [req EXCEPT ![r].pc = "transaction"]
  /\ UNCHANGED <<ledger, transfers, providerCalls, providerExecuted, call>>

\* the data_usage entry carries the amount unsigned
UseDataEntry(r, amount) == Entry(r, "data_usage", amount, 0)

UseDataTransaction(r) ==
  /\ req[r].kind = "useData" /\ req[r].pc = "transaction"
  /\ ledger' = ledger \cup {UseDataEntry(r, req[r].amount)}
  /\ req' = [req EXCEPT ![r] = Respond(r, 200, Null)]
  /\ UNCHANGED <<ishareBalance, transfers, incs, providerCalls, providerExecuted, call>>

UseData(r) ==
  \/ UseDataStart(r)
  \/ UseDataDebit(r)
  \/ UseDataTransaction(r)

\* ------------------------------------------- admin POST /debit-ishare
AdminDebitValidationError(amountMB, balance) ==
  IF amountMB = 0 THEN "userEmail and amountMB are required"
  ELSE IF amountMB <= 0 THEN "Amount must be greater than 0"
  ELSE IF balance < amountMB THEN "Insufficient balance"
  ELSE Null

\* User.findOne reads the account; the check is made on that copy
AdminDebitStart(r) ==
  /\ CanStart(r)
  /\ \E amountMB \in AdminAmounts :
       LET e == AdminDebitValidationError(amountMB, ishareBalance)
           started == [req[r] EXCEPT !.kind = "adminDebit", !.amount = amountMB,
                                     !.balanceSeen = ishareBalance]
       IN req' = [req EXCEPT ![r] =
                    IF e # Null
                      THEN [started EXCEPT !.pc = "done", !.status = 400, !.error = e]
                      ELSE [started EXCEPT !.pc = "transaction"]]
  /\ UNCHANGED <<ishareBalance, ledger, transfers, incs, providerCalls, providerExecuted, call>>

\* the entry is saved before the balance is updated, as data_usage, unsigned
AdminDebitEntry(r, amountMB) == Entry(r, "data_usage", amountMB, 0)

AdminDebitTransaction(r) ==
  /\ req[r].kind = "adminDebit" /\ req[r].pc = "transaction"
  /\ ledger' = ledger \cup {AdminDebitEntry(r, req[r].amount)}
  /\ req' = [req EXCEPT ![r].pc = "debit"]
  /\ UNCHANGED <<ishareBalance, transfers, incs, providerCalls, providerExecuted, call>>

AdminDebitInc(r) ==
  /\ req[r].kind = "adminDebit" /\ req[r].pc = "debit"
  /\ IncBalance(r, -req[r].amount)
  /\ req' = [req EXCEPT ![r] = Respond(r, 200, Null)]
  /\ UNCHANGED <<ledger, transfers, providerCalls, providerExecuted, call>>

AdminDebit(r) ==
  \/ AdminDebitStart(r)
  \/ AdminDebitTransaction(r)
  \/ AdminDebitInc(r)

\* ------------------------------------------ admin POST /credit-ishare
\* validation, User.findOne and the IshareLoad record
AdminCreditStart(r) ==
  /\ CanStart(r)
  /\ \E amountMB \in CreditAmounts :
       req' = [req EXCEPT ![r] =
                 IF amountMB <= 0
                   THEN [req[r] EXCEPT !.kind = "adminCredit", !.amount = amountMB,
                           !.pc = "done", !.status = 400,
                           !.error = "Amount must be greater than 0"]
                   ELSE [req[r] EXCEPT !.kind = "adminCredit", !.amount = amountMB,
                           !.pc = "transaction"]]
  /\ UNCHANGED <<ishareBalance, ledger, transfers, incs, providerCalls, providerExecuted, call>>

AdminCreditEntry(r, amountMB) == Entry(r, "admin_load", amountMB, 0)

AdminCreditTransaction(r) ==
  /\ req[r].kind = "adminCredit" /\ req[r].pc = "transaction"
  /\ ledger' = ledger \cup {AdminCreditEntry(r, req[r].amount)}
  /\ req' = [req EXCEPT ![r].pc = "credit"]
  /\ UNCHANGED <<ishareBalance, transfers, incs, providerCalls, providerExecuted, call>>

AdminCreditInc(r) ==
  /\ req[r].kind = "adminCredit" /\ req[r].pc = "credit"
  /\ IncBalance(r, req[r].amount)
  /\ req' = [req EXCEPT ![r] = Respond(r, 201, Null)]
  /\ UNCHANGED <<ledger, transfers, providerCalls, providerExecuted, call>>

AdminCredit(r) ==
  \/ AdminCreditStart(r)
  \/ AdminCreditTransaction(r)
  \/ AdminCreditInc(r)

\* ------------------------------- GET /transfer/status/:transactionId
WebKeys == {generateTransactionId("WEB", k) : k \in Randoms}

\* IshareTransfer.findOne({ externalTransactionId, sender })
FindTransfer(transactionId) ==
  {q \in Reqs : /\ transfers[q].status # "none"
                /\ transfers[q].externalTransactionId = transactionId}

\* the statuses for which each route asks the provider
WebAsksProvider(status) == status = "completed"
ApiAsksProvider(status) == status = "completed" \/ status = "pending"

StatusStart(r, kind, transactionId) ==
  /\ CanStart(r)
  /\ LET found == FindTransfer(transactionId)
         started == [req[r] EXCEPT !.kind = kind, !.transactionId = transactionId]
     IN IF found = {}
          THEN req' = [req EXCEPT ![r] =
                 [started EXCEPT !.pc = "done", !.status = 404,
                                 !.error = "Transaction not found"]]
          ELSE \E q \in found :
                 LET asks == IF kind = "webStatus"
                               THEN WebAsksProvider(transfers[q].status)
                               ELSE ApiAsksProvider(transfers[q].status)
                 IN req' = [req EXCEPT ![r] =
                      IF asks
                        THEN GatewayRequest([started EXCEPT !.pc = "awaitStatus",
                                                            !.seen = transfers[q].status])
                        ELSE [started EXCEPT !.pc = "done", !.status = 200,
                                             !.seen = transfers[q].status]]
  /\ UNCHANGED <<ishareBalance, ledger, transfers, incs, providerCalls, providerExecuted, call>>

WebStatusStart(r) == \E transactionId \in WebKeys : StatusStart(r, "webStatus", transactionId)

ApiStatusStart(r) == \E transactionId \in WebKeys : StatusStart(r, "apiStatus", transactionId)

\* faulty variant: the route settles the Transfer from the provider's answer
StatusResponds_Settles(r) ==
  /\ req[r].kind \in {"webStatus", "apiStatus"} /\ req[r].pc = "awaitStatus"
  /\ req' = [req EXCEPT ![r] =
       [req[r] EXCEPT !.pc = "done", !.status = 200, !.providerStatus = "not_found"]]
  /\ transfers' = [q \in Reqs |->
       IF q \in FindTransfer(req[r].transactionId)
         THEN [transfers[q] EXCEPT !.status = "failed"]
         ELSE transfers[q]]
  /\ UNCHANGED <<ishareBalance, ledger, incs, providerCalls, providerExecuted, call>>

\* IShareService.checkTransactionStatus answers or throws; the route
\* answers 200 with the local status either way
StatusResponds(r) ==
  /\ req[r].kind \in {"webStatus", "apiStatus"} /\ req[r].pc = "awaitStatus"
  /\ \E fault \in BOOLEAN :
       req' = [req EXCEPT ![r] =
         [req[r] EXCEPT !.pc = "done", !.status = 200,
            !.providerStatus =
               IF fault THEN "error"
               ELSE IF req[r].transactionId \in providerExecuted THEN "executed"
               ELSE "not_found"]]
  /\ UNCHANGED <<ishareBalance, ledger, transfers, incs, providerCalls, providerExecuted, call>>

StatusCheck(r) ==
  \/ WebStatusStart(r)
  \/ ApiStatusStart(r)
  \/ StatusResponds(r)

\* ------------------------------------- admin POST /admin/debug-transfer
DebugPhones == {Phone10, Phone5}
DebugAmounts == {50}

\* the transfer is sent without saving anything to the database
DebugTransferStart(r) ==
  /\ CanStart(r)
  /\ \E phoneNumber \in DebugPhones, amountMB \in DebugAmounts, random \in Randoms :
       LET transactionId == generateTransactionId("DEBUG", random)
           thrown == SendTransferThrows(phoneNumber, amountMB)
           started == [req[r] EXCEPT !.kind = "debugTransfer", !.phone = phoneNumber,
                                     !.amount = amountMB, !.transactionId = transactionId]
       IN IF thrown # Null
            THEN /\ req' = [req EXCEPT ![r] =
                       [started EXCEPT !.pc = "done", !.status = 200, !.thrown = thrown,
                                       !.error = thrown]]
                 /\ UNCHANGED providerCalls
            ELSE /\ req' = [req EXCEPT ![r] =
                       GatewayRequest([started EXCEPT !.pc = "awaitProvider"])]
                 /\ providerCalls' = providerCalls \cup
                       {[by |-> r, transactionId |-> transactionId]}
  /\ UNCHANGED <<ishareBalance, ledger, transfers, incs, providerExecuted, call>>

DebugProviderResponds(r) ==
  /\ req[r].kind = "debugTransfer" /\ req[r].pc = "awaitProvider"
  /\ \E o \in SendOutcomesFor(req[r].transactionId) :
       req' = [req EXCEPT ![r] =
         IF o.fault = "none"
           THEN [req[r] EXCEPT !.pc = "done", !.status = 200, !.outcome = o,
                               !.apiResult = parseTransferResponse(o.body)]
           ELSE [req[r] EXCEPT !.pc = "done", !.status = 200, !.outcome = o,
                               !.thrown = TransportMessage(o.fault),
                               !.error = TransportMessage(o.fault)]]
  /\ UNCHANGED <<ishareBalance, ledger, transfers, incs, providerCalls, providerExecuted, call>>

DebugTransfer(r) ==
  \/ DebugTransferStart(r)
  \/ DebugProviderResponds(r)

\* ------------------------------------- admin GET /admin/provider-balance
\* iShareService.checkBalance posts its request
ProviderBalanceStart(r) ==
  /\ CanStart(r)
  /\ req' = [req EXCEPT ![r] =
       GatewayRequest([req[r] EXCEPT !.kind = "providerBalance", !.pc = "awaitBalance"])]
  /\ UNCHANGED <<ishareBalance, ledger, transfers, incs, providerCalls, providerExecuted, call>>

\* checkBalance returns the parsed answer or throws; the route answers
ProviderBalanceResponds(r) ==
  /\ req[r].kind = "providerBalance" /\ req[r].pc = "awaitBalance"
  /\ \E fault \in BOOLEAN :
       req' = [req EXCEPT ![r] =
         IF fault THEN Respond(r, 500, "Failed to check provider balance")
                  ELSE Respond(r, 200, Null)]
  /\ UNCHANGED <<ishareBalance, ledger, transfers, incs, providerCalls, providerExecuted, call>>

ProviderBalance(r) ==
  \/ ProviderBalanceStart(r)
  \/ ProviderBalanceResponds(r)

Next ==
  \E r \in Reqs :
    \/ WebTransfer(r)
    \/ ApiTransfer(r)
    \/ UseData(r)
    \/ AdminDebit(r)
    \/ AdminCredit(r)
    \/ StatusCheck(r)
    \/ DebugTransfer(r)
    \/ ProviderExecutes(r)

Spec == Init /\ [][Next]_vars

\* ----------------------------------- the requests that handle Transfers
\* the routes that create, settle or read an IshareTransfer, and the gateway;
\* the other routes write only the balance and their own ledger entries
NextTransfers ==
  \E r \in Reqs :
    \/ WebTransfer(r)
    \/ ApiTransfer(r)
    \/ StatusCheck(r)
    \/ ProviderExecutes(r)

SpecTransfers == Init /\ [][NextTransfers]_vars

\* ------------------------------------ the requests that use the adapter
\* the routes that invoke sendTransfer, checkTransactionStatus or
\* checkBalance, and the gateway
NextGateway ==
  \E r \in Reqs :
    \/ WebTransfer(r)
    \/ StatusCheck(r)
    \/ DebugTransfer(r)
    \/ ProviderBalance(r)
    \/ ProviderExecutes(r)

SpecGateway == Init /\ [][NextGateway]_vars

\* ------------------------------------------- the handler runs to its end
\* the steps of the web transfer handler after the request was accepted: each
\* is the continuation of an awaited save, update or provider call
WebTransferContinues(r) ==
  \/ WebSaveTransfer(r)
  \/ WebCallProvider(r)
  \/ WebProviderResponds(r)
  \/ WebDebit(r)
  \/ WebSenderTransaction(r)
  \/ WebFailedTransaction(r)
  \/ WebErrorTransaction(r)

\* every awaited promise settles and the event loop runs its continuation
HandlersProgress == \A r \in Reqs : WF_vars(WebTransferContinues(r))

\* the web transfer requests and the gateway: no other request writes to a
\* Transfer of the web route or to the locals of its handler
NextLive ==
  \E r \in Reqs :
    \/ WebTransfer(r)
    \/ ProviderExecutes(r)

SpecLive == Init /\ [][NextLive]_vars /\ HandlersProgress

\* ------------------------------------------------ formatMsisdn by itself
\* the digits of the subscriber number "267781294", continued past the ninth
SubscriberDigit(i) == IF i <= 9 THEN Phone9[i] ELSE i % 10

Subscriber(k) == [i \in 1..k |-> SubscriberDigit(i)]

\* what a caller may put in front: nothing, the trunk 0, the country code,
\* 0 and the country code, "+" and "+233" (10 is a character that is no digit)
Leads == {<<>>, <<0>>, <<2, 3, 3>>, <<0, 2, 3, 3>>, <<10>>, <<10, 2, 3, 3>>}

Phone13 == <<0, 2, 3, 3>> \o Phone9                   \* "0233267781294"

FormatInputs ==
  {lead \o Subscriber(k) : lead \in Leads, k \in 0..MaxSubscriber} \cup {Phone5}

InitFormat ==
  /\ ishareBalance = InitBalance
  /\ ledger = {Entry(0, "admin_load", InitBalance, 0)}
  /\ transfers = [r \in Reqs |-> NoTransfer]
  /\ req = [r \in Reqs |-> IdleReq]
  /\ incs = [r \in Reqs |-> 0]
  /\ providerCalls = {}
  /\ providerExecuted = {}
  /\ call \in {[NoCall EXCEPT !.fn = "formatMsisdn", !.arg = p] : p \in FormatInputs}

\* this.formatMsisdn(recipientMsisdn) returns or throws
FormatCall ==
  /\ call.fn = "formatMsisdn" /\ ~call.done
  /\ call' = [call EXCEPT !.out = formatMsisdn(call.arg), !.done = TRUE]
  /\ UNCHANGED <<ishareBalance, ledger, transfers, req, incs, providerCalls, providerExecuted>>

NextFormat == FormatCall

SpecFormat == InitFormat /\ [][NextFormat]_vars

\* --------------------------------------- parseTransferResponse by itself
\* what the ResponseCode regex captures: "" when the tag is absent or its
\* text is not all digits
ParseCodes ==
  {"", "200", "0200", "2000", "20", "201", "319", "305", "312", "61319", "64528", "500"}

ParseMessages == {"", "Success", "Dealer has no balance"}

ParseInputs ==
  {XmlBody(code, msg, sys, ven) :
     code \in ParseCodes, msg \in ParseMessages, sys \in {"", "SYS1"}, ven \in {"", "VEN1"}}
  \cup {HtmlBody}

InitParse ==
  /\ ishareBalance = InitBalance
  /\ ledger = {Entry(0, "admin_load", InitBalance, 0)}
  /\ transfers = [r \in Reqs |-> NoTransfer]
  /\ req = [r \in Reqs |-> IdleReq]
  /\ incs = [r \in Reqs |-> 0]
  /\ providerCalls = {}
  /\ providerExecuted = {}
  /\ call \in {[fn |-> "parseTransferResponse", arg |-> b, out |-> NoResult,
                 done |-> FALSE] : b \in ParseInputs}

\* this.parseTransferResponse(response.data) returns
ParseCall ==
  /\ call.fn = "parseTransferResponse" /\ ~call.done
  /\ call' = [call EXCEPT !.out = parseTransferResponse(call.arg), !.done = TRUE]
  /\ UNCHANGED <<ishareBalance, ledger, transfers, req, incs, providerCalls, providerExecuted>>

NextParse == ParseCall

SpecParse == InitParse /\ [][NextParse]_vars

\* ---------------------------------------------------- rateLimit by itself
\* req.user?.id || req.ip
RateKeys == {"user1", "user2"}

\* requests.get(key).filter(time => time > windowStart)
CleanOld(times, now, windowMs) ==
  LET Recent(time) == time > now - windowMs
  IN SelectSeq(times, Recent)

\* faulty variant: the limit is compared with > where the code has >=
rateLimit_OneTooMany(windowMs, max, times, now) ==
  LET userRequests == CleanOld(times, now, windowMs)
  IN IF Len(userRequests) > max
       THEN [status |-> 429, times |-> userRequests]
       ELSE [status |-> 200, times |-> Append(userRequests, now)]

\* the middleware rateLimit(windowMs, max) returns, run on the list stored
\* for the key: 429, or next() (status 200 here) with now recorded
rateLimit(windowMs, max, times, now) ==
  LET userRequests == CleanOld(times, now, windowMs)
  IN IF Len(userRequests) >= max
       THEN [status |-> 429, times |-> userRequests]
       ELSE [status |-> 200, times |-> Append(userRequests, now)]

\* call.requests is the Map of the closure, call.admitted the history of the
\* requests passed on to next(), call.now the value Date.now() returns
InitRate ==
  /\ ishareBalance = InitBalance
  /\ ledger = {Entry(0, "admin_load", InitBalance, 0)}
  /\ transfers = [r \in Reqs |-> NoTransfer]
  /\ req = [r \in Reqs |-> IdleReq]
  /\ incs = [r \in Reqs |-> 0]
  /\ providerCalls = {}
  /\ providerExecuted = {}
  /\ call = [fn |-> "rateLimit", arg |-> Null, out |-> 0, done |-> FALSE, now |-> 0,
             requests |-> [k \in RateKeys |-> <<>>],
             admitted |-> [k \in RateKeys |-> <<>>]]

\* time passes between two requests
RateTick ==
  /\ call.fn = "rateLimit" /\ call.now < MaxTime
  /\ call' = [call EXCEPT !.now = @ + 1, !.arg = Null, !.out = 0]
  /\ UNCHANGED <<ishareBalance, ledger, transfers, req, incs, providerCalls, providerExecuted>>

\* a request of some key goes through the middleware
RateRequest ==
  /\ call.fn = "rateLimit"
  /\ \E key \in RateKeys :
       LET result == rateLimit(WindowMs, MaxAdmit, call.requests[key], call.now)
       IN call' = [call EXCEPT
                    !.arg = key, !.out = result.status, !.done = TRUE,
                    !.requests[key] = result.times,
                    !.admitted[key] = IF result.status = 200 THEN Append(@, call.now) ELSE @]
  /\ UNCHANGED <<ishareBalance, ledger, transfers, req, incs, providerCalls, providerExecuted>>

NextRate == RateTick \/ RateRequest

SpecRate == InitRate /\ [][NextRate]_vars

\* ================================================================ claims
EntriesOf(r) == {e \in ledger : e.id = r}

RECURSIVE SumAmounts(_)
SumAmounts(S) ==
  IF S = {} THEN 0
  ELSE LET e == CHOOSE x \in S : TRUE
       IN e.amount + SumAmounts(S \ {e})

Quiescent == \A q \in Reqs : req[q].pc \in {"idle", "done"}

ProviderAnswered(r, code) ==
  /\ req[r].outcome.fault = "none"
  /\ req[r].outcome.body.kind = "xml"
  /\ req[r].outcome.body.code = code

TransportFault(r) == req[r].outcome.fault \notin {"unset", "none"}

\* C1: in every reachable state, under any interleaving of transfer-send,
\* use-data and admin-debit requests that each passed its balance check, the
\* account's ishareBalance is >= 0.
C1_BalanceNeverNegative == ishareBalance >= 0

\* C2: two concurrent transfers of 400 against a balance of 500, both
\* accepted by the provider: exactly one ends completed, the other failed,
\* and the final balance is 500 - 400.
C2_Concurrent400(r) ==
  /\ req[r].kind = "webTransfer" /\ req[r].pc = "done"
  /\ req[r].amount = 400 /\ req[r].balanceSeen = InitBalance
  /\ ProviderAnswered(r, "200")

C2_ExactlyOneOfTwoCompletes ==
  \A r1, r2 \in Reqs :
    ( /\ r1 < r2
      /\ C2_Concurrent400(r1) /\ C2_Concurrent400(r2)
      /\ \A q \in Reqs \ {r1, r2} : req[q].pc \in {"idle", "done"} /\ incs[q] = 0 )
    => /\ {transfers[r1].status, transfers[r2].status} = {"completed", "failed"}
       /\ ishareBalance = InitBalance - 400

\* C3: in every reachable state, steps of the handlers included, the balance
\* equals the sum of the signed amounts of the account's ledger entries.
C3_BalanceEqualsLedgerSum == ishareBalance = SumAmounts(ledger)

\* C4: on the web and on the API transfer path, a balance is debited for a
\* transfer, and the transfer is completed, only if the provider's
\* send-transfer call for it returned response code 200.
C4_DebitOnlyAfterProviderSuccess ==
  \A r \in Reqs :
    ( /\ req[r].kind \in {"webTransfer", "apiTransfer"}
      /\ (incs[r] < 0 \/ transfers[r].status = "completed") )
    => /\ \E c \in providerCalls : c.by = r
       /\ ProviderAnswered(r, "200")

\* C5: when the send-transfer call ends in a transport fault, the Transfer is
\* left in the non-terminal pending state, not failed, and no ledger entry or
\* balance change is made at that point.
C5_TransportFaultLeavesPending ==
  \A r \in Reqs :
    ( /\ req[r].kind = "webTransfer" /\ req[r].pc = "errorTransaction"
      /\ TransportFault(r) )
    => /\ transfers[r].status = "pending"
       /\ EntriesOf(r) = {}
       /\ incs[r] = 0

\* C6: if the provider call of a transfer timed out and a status check for
\* its transaction id reported that the provider executed it, then once the
\* requests have run to their end the Transfer is completed and exactly one
\* debit entry exists for it.
C6_TimeoutThenExecutedCompletes ==
  \A r, c \in Reqs :
    ( /\ Quiescent
      /\ req[r].kind = "webTransfer" /\ req[r].outcome.fault = "ETIMEDOUT"
      /\ req[c].kind \in {"webStatus", "apiStatus"} /\ req[c].pc = "done"
      /\ req[c].transactionId = req[r].transactionId
      /\ req[c].providerStatus = "executed" )
    => /\ transfers[r].status = "completed"
       /\ Cardinality({e \in ledger : e.ishareTransfer = r /\ e.amount < 0}) = 1

C7_Answered319(r) ==
  /\ req[r].kind = "webTransfer" /\ req[r].pc = "done"
  /\ ProviderAnswered(r, "319")

Persisted(transactionId) ==
  \E q \in Reqs : /\ transfers[q].status # "none"
                  /\ transfers[q].externalTransactionId = transactionId

\* C8 as stated: the provider's send-transfer is never called for a
\* transaction id that has no persisted Transfer, and while the call is in
\* flight that Transfer is pending.
C8_NoCallWithoutTransfer ==
  \A c \in providerCalls :
    /\ Persisted(c.transactionId)
    /\ req[c.by].pc = "awaitProvider" => transfers[c.by].status = "pending"

\* C8, amended: every send-transfer call of the web transfer route is for a
\* transaction id whose Transfer was persisted before the call, pending while
\* the call is in flight; the only calls without a persisted Transfer are
\* those of the admin debug-transfer route.
C8_WebCallHasPersistedTransfer ==
  \A c \in providerCalls :
    \/ /\ req[c.by].kind = "webTransfer"
       /\ transfers[c.by].status # "none"
       /\ transfers[c.by].externalTransactionId = c.transactionId
       /\ req[c.by].pc = "awaitProvider" => transfers[c.by].status = "pending"
    \/ req[c.by].kind = "debugTransfer"

C8_Witness ==
  \E c \in providerCalls :
    req[c.by].kind = "webTransfer" /\ req[c.by].pc = "awaitProvider"

C9_Succeeded(r) ==
  /\ req[r].kind = "webTransfer" /\ req[r].pc = "done"
  /\ ProviderAnswered(r, "200")

\* C9: when the provider answers a transfer with explicit success, the
\* Transfer is completed and stores the provider's system and vendor
\* references, the request has decreased the balance by exactly the amount,
\* and one transfer_sent entry of minus the amount exists for it.
C9_SuccessCompletesAndDebitsOnce ==
  \A r \in Reqs :
    C9_Succeeded(r)
    => /\ transfers[r].status = "completed"
       /\ transfers[r].systemTransactionId = req[r].outcome.body.sys
       /\ transfers[r].vendorTransactionId = req[r].outcome.body.ven
       /\ incs[r] = -req[r].amount
       /\ EntriesOf(r) = {Entry(r, "transfer_sent", -req[r].amount, r)}

C9_Witness == \E r \in Reqs : C9_Succeeded(r)

ValidationErrors ==
  {ErrMinimum, ErrRequired, ErrNot233, ErrInvalidFormat, ErrFinalLength}

C10_FailedValidation(r) ==
  /\ req[r].kind \in {"webTransfer", "apiTransfer"}
  /\ \/ req[r].pc = "done" /\ req[r].status = 400 /\ req[r].outcome = NoOutcome
     \/ req[r].thrown \in ValidationErrors

\* C10: a transfer request that fails validation (amount below the minimum,
\* destination not well-formed after normalization, amount above the balance
\* read) ends without the provider being contacted and without any ledger
\* entry created for it.
C10_ValidationFailureLeavesNoTrace ==
  \A r \in Reqs :
    C10_FailedValidation(r)
    => /\ ~ \E c \in providerCalls : c.by = r
       /\ EntriesOf(r) = {}

\* C11: no transfer-send request with an amount below the provider minimum
\* of 50 ever leaves a completed Transfer or a change of the balance.
C11_BelowMinimumNeverAccepted ==
  \A r \in Reqs :
    (req[r].kind \in {"webTransfer", "apiTransfer"} /\ req[r].amount < 50)
    => /\ transfers[r].status # "completed"
       /\ incs[r] = 0

\* a submission whose transaction id is already carried by the Transfer of
\* another request
C12_Resubmitted(r) ==
  /\ req[r].kind = "webTransfer" /\ req[r].pc = "done"
  /\ req[r].transactionId # NoKey
  /\ \E q \in Reqs \ {r} : /\ transfers[q].status # "none"
                           /\ transfers[q].externalTransactionId = req[r].transactionId

\* C12: a submission carrying the transaction id of an existing Transfer
\* leaves exactly one Transfer with that id, at most one provider call and at
\* most one ledger entry for it, and is answered with the state of the
\* existing Transfer rather than with an error.
C12_SameKeyIsIdempotent ==
  \A r \in Reqs :
    C12_Resubmitted(r)
    => /\ Cardinality({q \in Reqs : /\ transfers[q].status # "none"
                                    /\ transfers[q].externalTransactionId
                                         = req[r].transactionId}) = 1
       /\ Cardinality({c \in providerCalls : c.transactionId = req[r].transactionId}) <= 1
       /\ Cardinality({e \in ledger : e.ishareTransfer # 0
                         /\ transfers[e.ishareTransfer].externalTransactionId
                              = req[r].transactionId}) <= 1
       /\ req[r].status # 500

\* C13: the transaction ids generated for any two requests differ.
C13_GeneratedIdsDiffer ==
  \A r1, r2 \in Reqs :
    (r1 # r2 /\ req[r1].transactionId # NoKey /\ req[r2].transactionId # NoKey
       /\ req[r1].kind \in {"webTransfer", "debugTransfer"}
       /\ req[r2].kind \in {"webTransfer", "debugTransfer"})
    => req[r1].transactionId # req[r2].transactionId

\* the ledger entries that reference the Transfer of request r
C14_EntriesFor(r) == {e \in ledger : e.ishareTransfer = r}

\* C14: in every reachable state a completed or failed Transfer has exactly
\* one ledger entry referencing it and a pending Transfer has none.
C14_TerminalTransferHasOneEntry ==
  \A r \in Reqs :
    /\ transfers[r].status \in {"completed", "failed"}
         => Cardinality(C14_EntriesFor(r)) = 1
    /\ transfers[r].status = "pending" => C14_EntriesFor(r) = {}

\* the provider answered request r with an HTML page
C15_AnsweredHtml(r) ==
  /\ req[r].kind = "webTransfer"
  /\ req[r].outcome.fault = "none"
  /\ req[r].outcome.body.kind = "html"

\* C15: a provider answer that is an HTML page is treated as a transport
\* fault: the Transfer is not moved to failed.
C15_HtmlAnswerNotARejection ==
  \A r \in Reqs : C15_AnsweredHtml(r) => transfers[r].status # "failed"

\* formatMsisdn has returned a number for the call
C16_Returned == call.fn = "formatMsisdn" /\ call.done /\ call.out.ok

\* C16: for every input, formatMsisdn either returns exactly 12 digits
\* beginning with 233 or fails with an error.
C16_ReturnsCanonicalOrFails ==
  (call.fn = "formatMsisdn" /\ call.done)
  => IF call.out.ok
       THEN /\ Len(call.out.value) = 12
            /\ StripNonDigits(call.out.value) = call.out.value
            /\ StartsWith(call.out.value, <<2, 3, 3>>)
       ELSE call.out.error \in
              {ErrRequired, ErrNot233, ErrInvalidFormat, ErrFinalLength}

C16_Witness == C16_Returned /\ call.arg = <<10>> \o Phone12

\* C17: for an input whose digits number exactly 9, formatMsisdn succeeds
\* with the 12-digit form: "267781294" gives "233267781294".
C17_NineDigitsNormalised ==
  (call.fn = "formatMsisdn" /\ call.done /\ Len(StripNonDigits(call.arg)) = 9)
  => /\ call.out.ok
     /\ Len(call.out.value) = 12
     /\ call.arg = Phone9 => call.out.value = Phone12

\* the digit lengths formatMsisdn has a successful branch for in C18
C18_Lengths == {10, 12, 13}

C19_CreditIsIndivisible ==
  \A r \in Reqs :
    (req[r].kind = "adminCredit" /\ req[r].amount > 0)
    => (AdminCreditEntry(r, req[r].amount) \in ledger <=> incs[r] = req[r].amount)

\* C20: every answered transfer submission reports a completed, failed or
\* pending transfer, and one whose provider call ended in a transport fault
\* is reported pending, not failed with the transport error as its reason.
C20_TransportFaultAnsweredPending ==
  \A r \in Reqs :
    (req[r].kind = "webTransfer" /\ req[r].pc = "done" /\ transfers[r].status # "none")
    => /\ req[r].reportedStatus \in {"completed", "failed", "pending"}
       /\ TransportFault(r)
            => /\ req[r].reportedStatus = "pending"
               /\ req[r].reportedReason # TransportMessage(req[r].outcome.fault)

\* the status changes a Transfer may make: created pending, then at most
\* once to completed or to failed
C21_Step(old, new) ==
  \/ old = new
  \/ old = "none" /\ new = "pending"
  \/ old = "pending" /\ new \in {"completed", "failed"}

\* C21: every Transfer starts pending, changes status at most once, to
\* completed or failed, and never changes status after that, whatever
\* requests (status checks included) are served.
C21_StatusMonotonic ==
  [][\A r \in Reqs : C21_Step(transfers[r].status, transfers'[r].status)]_vars

\* C22: no completed Transfer has a failureReason, every Transfer the web
\* transfer route marked failed has one, and a Transfer carries provider
\* references only when the provider reported success for it.
C22_ReasonAndReferencesMatchStatus ==
  \A r \in Reqs :
    /\ transfers[r].status = "completed" => transfers[r].failureReason = Null
    /\ (transfers[r].status = "failed" /\ req[r].kind = "webTransfer")
         => transfers[r].failureReason # Null
    /\ (transfers[r].systemTransactionId # Null \/ transfers[r].vendorTransactionId # Null)
         => /\ ProviderAnswered(r, "200")
            /\ transfers[r].status = "completed"

C22_Witness ==
  \E r1, r2 \in Reqs :
    /\ transfers[r1].status = "completed" /\ transfers[r1].systemTransactionId # Null
    /\ transfers[r2].status = "failed" /\ req[r2].kind = "webTransfer"

\* C23: the parsed send-transfer result is a success exactly when the body
\* carries response code 200; another code, or no code, is never a success.
C23_SuccessIffCode200 ==
  (call.fn = "parseTransferResponse" /\ call.done)
  => (call.out.success <=> (call.arg.kind = "xml" /\ call.arg.code = "200"))

C23_Witness ==
  /\ call.fn = "parseTransferResponse" /\ call.done
  /\ call.out.success
  /\ call.arg.msg = ""

\* the requests whose handler invokes the provider adapter
C24_AdapterKinds ==
  {"webTransfer", "debugTransfer", "webStatus", "apiStatus", "providerBalance"}

\* C24: one invocation of sendTransfer, checkBalance or
\* checkTransactionStatus issues at most one request to the gateway, whatever
\* its outcome.
C24_NoRetries ==
  \A r \in Reqs :
    /\ req[r].requests <= 1
    /\ Cardinality({c \in providerCalls : c.by = r}) <= 1

C24_Witness ==
  \E r \in Reqs :
    /\ req[r].kind \in C24_AdapterKinds /\ req[r].pc = "done"
    /\ req[r].requests = 1
    /\ TransportFault(r)

\* formatMsisdn was called with ten digits that do not begin with 0
C25_TenDigitsNoTrunk ==
  /\ call.fn = "formatMsisdn" /\ call.done
  /\ Len(StripNonDigits(call.arg)) = 10
  /\ ~StartsWith(StripNonDigits(call.arg), <<0>>)

\* C25: for an input of exactly 10 digits that does not start with 0,
\* formatMsisdn succeeds and returns 233 followed by the 10 digits.
C25_TenDigitsGetCountryCode ==
  C25_TenDigitsNoTrunk
  => call.out = FmtOk(<<2, 3, 3>> \o StripNonDigits(call.arg))

\* C26: whatever requests run concurrently, the provider's send-transfer
\* operation is called at most once for any one transaction id.
C26_OneSendPerKey ==
  \A c1, c2 \in providerCalls : c1.transactionId = c2.transactionId => c1 = c2

\* the Errors formatMsisdn throws
C27_PhoneErrors == {ErrRequired, ErrNot233, ErrInvalidFormat, ErrFinalLength}

\* a web transfer request whose phone number passed the route's pre-check
C27_PassedPreCheck(r) ==
  /\ req[r].kind = "webTransfer"
  /\ req[r].transactionId # NoKey

\* C27: a web transfer request that passed validation never fails later on
\* its phone number: formatMsisdn does not throw for it and the save of the
\* Transfer is not rejected by the schema's phone validator.
C27_PreCheckedPhoneIsAccepted ==
  \A r \in Reqs :
    C27_PassedPreCheck(r)
    => /\ req[r].thrown \notin C27_PhoneErrors
       /\ (req[r].pc = "done" /\ req[r].error = "Internal server error")
            => TransferSchemaValid(req[r].phone, req[r].amount)

C29_StatusStep(r) ==
  /\ req'[r] # req[r]
  /\ req'[r].kind \in {"webStatus", "apiStatus"}

\* C29: a step of a transfer status check, whatever the provider answers,
\* leaves every Transfer, the balance and the ledger entries unchanged.
C29_StatusCheckReadOnly ==
  [][(\E r \in Reqs : C29_StatusStep(r))
       => UNCHANGED <<transfers, ishareBalance, ledger>>]_vars

C29_Witness ==
  \E r \in Reqs :
    /\ req[r].kind \in {"webStatus", "apiStatus"} /\ req[r].pc = "done"
    /\ req[r].providerStatus = "executed"

\* the requests of a key passed on with a timestamp in the window of length
\* windowMs that ends at tick t
C30_AdmittedIn(key, t) ==
  LET InWindow(time) == time > t - WindowMs /\ time <= t
  IN Len(SelectSeq(call.admitted[key], InWindow))

\* C30: for every key, the requests passed on with timestamps inside any one
\* window of length windowMs never number more than max, and a request
\* answered 429 is not recorded: it adds nothing to the stored timestamps.
C30_WindowNeverExceedsMax ==
  /\ [](call.fn = "rateLimit"
          => \A key \in RateKeys, t \in 0..MaxTime : C30_AdmittedIn(key, t) <= MaxAdmit)
  /\ [][(call.fn = "rateLimit" /\ call'.out = 429)
          => /\ call'.admitted = call.admitted
             /\ \A key \in RateKeys :
                  call'.requests[key] =
                    IF key = call'.arg
                      THEN CleanOld(call.requests[key], call.now, WindowMs)
                      ELSE call.requests[key]]_vars

C30_Witness ==
  /\ call.fn = "rateLimit" /\ call.out = 429
  /\ \E key \in RateKeys : Len(call.admitted[key]) > MaxAdmit
====
